---- MODULE Spec2Model ----
(***************************************************************************)
(* ACTIV backend (Plaid proxy): the link-token product negotiation         *)
(* (linkTokenCreateSmart), the per-user access-token store and the KPI     *)
(* summary (buildSummary), modelled from src/server.js.                    *)
(* Two builds of the server are modelled, selected by                      *)
(* the variable variant:                                                    *)
(*   "mem"  the in-memory build       (src/server.js lines 1-604)           *)
(*   "pg"   the Postgres-backed build (src/server.js lines 920-1282)        *)
(*   "rows" the Postgres build that keeps one row per exchange              *)
(*          (src/unnamed/part_002)                                          *)
(***************************************************************************)
EXTENDS Integers, Sequences, FiniteSets, Bags, TLC

VARIABLES
    variant,    \* which build of the server runs
    body,       \* JSON body of POST /plaid/link_token/create
    pc,         \* position of the linkTokenCreateSmart call
    products,   \* local variable `products` of linkTokenCreateSmart
    sent,       \* /link/token/create requests issued so far by the call
    reply,      \* provider's answer to the request in flight
    result,     \* what the call returned or threw
    history,    \* kinds of provider answers the call has received
    onTrack,    \* every rejection so far was INVALID_PRODUCT naming a requested product
    tokens,     \* the token store: userId -> access_token ("" when absent)
    inflight,   \* bag of provider requests awaited by route handlers
    response,   \* the HTTP response most recently written
    granted,    \* per user, the token of the latest successful exchange not removed since
    payload,    \* the values carried by the JSON body of that HTTP response
    removal,    \* the provider's answer to /item/remove that the latest step consumed
    rows,       \* the tokens table of the one-row-per-exchange build, oldest row first
    revoked,    \* the access tokens for which the provider accepted /item/remove
    upstream,   \* what the provider holds for each of the four summary fetches
    spc,        \* position of the buildSummary call
    summaryUser, \* the userId argument of the buildSummary call
    settled,    \* outcome of each summary fetch, by position in the Promise.all array
    arrival,    \* positions of the settled fetches, in completion order
    report      \* what buildSummary returned

negVars == <<body, pc, products, sent, reply, result, history, onTrack>>
storeVars == <<tokens, inflight, response, granted, payload, removal>>
rowVars == <<rows, revoked>>
sumVars == <<upstream, spc, summaryUser, settled, arrival, report>>

\* ------------------------------------------------------------------ bounds
MaxDesired == 2     \* longest body.products list
MaxNamed == 2       \* most names in one bracketed list of a rejection
MaxRequests == 5    \* most provider requests followed within one call
MaxInflight == 2    \* most provider requests awaited at once by route handlers
MaxAccounts == 2    \* most accounts of an item
MaxHoldings == 2    \* most holdings of an item
MaxTransactions == 2 \* most transactions in the 30-day window
MaxLargeTransactions == 4 \* most transactions in a window with very large amounts
MantissaBits == 22  \* significand width of a number (53 bits in JavaScript)
MaxRows == 3        \* most rows of the tokens table

\* --------------------------------------------------------------- strings
UpperCaseLetters == "ABCDEFGHIJKLMNOPQRSTUVWXYZ"
LowerCaseLetters == "abcdefghijklmnopqrstuvwxyz"

CharAt(s, i) == SubSeq(s, i, i)

\* String.prototype.toLowerCase on one character
toLowerCaseChar(c) ==
    IF \E i \in 1..26 : CharAt(UpperCaseLetters, i) = c
    THEN CharAt(LowerCaseLetters, CHOOSE i \in 1..26 : CharAt(UpperCaseLetters, i) = c)
    ELSE c

RECURSIVE toLowerCase(_)
toLowerCase(s) ==
    IF Len(s) = 0 THEN ""
    ELSE toLowerCaseChar(CharAt(s, 1)) \o toLowerCase(SubSeq(s, 2, Len(s)))

IsSpace(c) == c = " "

RECURSIVE trimStart(_)
trimStart(s) ==
    IF Len(s) > 0 /\ IsSpace(CharAt(s, 1)) THEN trimStart(SubSeq(s, 2, Len(s))) ELSE s

RECURSIVE trimEnd(_)
trimEnd(s) ==
    IF Len(s) > 0 /\ IsSpace(CharAt(s, Len(s))) THEN trimEnd(SubSeq(s, 1, Len(s) - 1)) ELSE s

\* String.prototype.trim
trim(s) == trimEnd(trimStart(s))

\* index of the first occurrence of character c in s at or after from, 0 if none
IndexOf(s, c, from) ==
    IF \E i \in from..Len(s) : CharAt(s, i) = c
    THEN CHOOSE i \in from..Len(s) :
            CharAt(s, i) = c /\ \A j \in from..(i - 1) : CharAt(s, j) # c
    ELSE 0

\* String.prototype.split(',')
RECURSIVE split(_)
split(s) ==
    LET k == IndexOf(s, ",", 1)
    IN  IF k = 0 THEN <<s>>
        ELSE <<SubSeq(s, 1, k - 1)>> \o split(SubSeq(s, k + 1, Len(s)))

\* capture group of the first match of /\[([^\]]+)\]/ in s, "" when no match.
\* A match starts at a "[" whose next character is not "]" and that is
\* followed by some "]"; the group runs up to the first such "]".
MatchStarts(s) ==
    { i \in 1..Len(s) :
        /\ CharAt(s, i) = "["
        /\ i + 1 <= Len(s)
        /\ CharAt(s, i + 1) # "]"
        /\ IndexOf(s, "]", i + 1) # 0 }

matchBracket(s) ==
    IF MatchStarts(s) = {} THEN ""
    ELSE LET i == CHOOSE m \in MatchStarts(s) : \A n \in MatchStarts(s) : m <= n
         IN  SubSeq(s, i + 1, IndexOf(s, "]", i + 1) - 1)

\* ------------------------------------------------------------- sequences
Range(q) == { q[i] : i \in DOMAIN q }

Map(f(_), q) == [i \in DOMAIN q |-> f(q[i])]

SeqsUpTo(S, n) == UNION { [1..k -> S] : k \in 0..n }

RECURSIVE Join(_, _)
Join(q, sep) ==
    IF Len(q) = 0 THEN ""
    ELSE IF Len(q) = 1 THEN q[1]
    ELSE q[1] \o sep \o Join(Tail(q), sep)

\* --------------------------------------------------------- Plaid products
VALID_PRODUCTS ==
    { "auth", "transactions", "identity", "assets", "investments",
      "liabilities", "income", "payment_initiation", "transfer", "signal",
      "credit_details" }

PREFERRED_PRODUCTS == <<"transactions", "auth", "identity", "liabilities", "investments">>

cleanOne(s) == toLowerCase(trim(s))

InVocabulary(p) == p \in VALID_PRODUCTS

\* cleanProducts without the .filter(p => VALID_PRODUCTS.has(p))
cleanProducts_NoFilter(list) ==
    Map(cleanOne, IF list.given THEN list.items ELSE PREFERRED_PRODUCTS)

\* cleanProducts(list); list.given = FALSE stands for an undefined list
cleanProducts(list) ==
    SelectSeq(Map(cleanOne, IF list.given THEN list.items ELSE PREFERRED_PRODUCTS),
              InVocabulary)

\* parseInvalidProducts without the .map(s => s.trim().toLowerCase())
parseInvalidProducts_Raw(err) ==
    LET m == matchBracket(err.error_message)
    IN  IF m = "" THEN <<>> ELSE split(m)

\* parseInvalidProducts(err)
parseInvalidProducts(err) ==
    LET m == matchBracket(err.error_message)
    IN  IF m = "" THEN <<>> ELSE Map(cleanOne, split(m))

\* const code = e?.error_code || e?.error || ''   ("" stands for a missing field)
codeOf(e) == IF e.error_code # "" THEN e.error_code ELSE e.error

\* ------------------------------------------------------ provider (Plaid)
\* Spellings under which a product name reaches the server, in a request body
\* or inside the bracketed list of a rejection message, with the name each stands for.
ProductSpellings ==
    ("transactions" :> "transactions") @@ (" Auth" :> "auth") @@
    ("IDENTITY " :> "identity") @@ ("balances" :> "balances")

Spellings == DOMAIN ProductSpellings

Bodies ==
    { [given |-> TRUE, items |-> q] : q \in SeqsUpTo(Spellings, MaxDesired) }
        \cup { [given |-> FALSE, items |-> <<>>] }

\* the lists a rejection message names: up to MaxNamed spellings, none repeated
NamedLists == { q \in SeqsUpTo(Spellings, MaxNamed) : q # <<>> /\ Cardinality(Range(q)) = Len(q) }

InvalidProductMessage(q) == "invalid product names: [" \o Join(q, ", ") \o "]"

NoListMessages == { "", "the following products are invalid", "invalid product names: []" }

PlaidError(code, legacy, message, status) ==
    [error_code |-> code, error |-> legacy, error_message |-> message, http_status |-> status]

InvalidProductErrors ==
    { PlaidError("INVALID_PRODUCT", "", m, 400) :
        m \in NoListMessages \cup { InvalidProductMessage(q) : q \in NamedLists } }

NotEnabledErrors ==
    { PlaidError("PRODUCTS_NOT_SUPPORTED", "", "", 400),
      PlaidError("PRODUCTS_NOT_ENABLED", "", "", 400),
      PlaidError("", "PRODUCTS_NOT_ENABLED", "", 400) }

OtherErrors ==
    { PlaidError("RATE_LIMIT_EXCEEDED", "", "rate limit [auth]", 429),
      PlaidError("INVALID_API_KEYS", "", "", 400),
      PlaidError("", "", "", 0) }          \* fetch failed: no code at all

Errors == InvalidProductErrors \cup NotEnabledErrors \cup OtherErrors

LinkTokens == { [link_token |-> "link-1", expiration |-> "exp-1"] }

NoReply == [status |-> "none"]
Resolved(out) == [status |-> "ok", out |-> out]
Rejected(e) == [status |-> "err", e |-> e]

Replies == { Resolved(out) : out \in LinkTokens } \cup { Rejected(e) : e \in Errors }

\* kind of an answer, as the provider means it
KindOf(r) ==
    IF r.status = "ok" THEN "ok"
    ELSE IF r.e \in InvalidProductErrors
         THEN (IF r.e.error_message \in NoListMessages THEN "invalid_nolist" ELSE "invalid_list")
    ELSE IF r.e \in NotEnabledErrors THEN "not_enabled"
    ELSE "other"

\* the rejection is an INVALID_PRODUCT whose bracketed list names, as the
\* provider means it, at least one of the products ps of the rejected request
NamesRequested(e, ps) ==
    /\ e.error_code = "INVALID_PRODUCT"
    /\ \E q \in NamedLists :
          /\ e.error_message = InvalidProductMessage(q)
          /\ \E i \in DOMAIN q : ProductSpellings[q[i]] \in { ps[j] : j \in DOMAIN ps }

\* ------------------------------------------- POST /plaid/link_token/create
\* the second argument the route handler passes to linkTokenCreateSmart
prodsArgument(v, b) ==
    IF v = "mem" /\ ~b.given THEN [given |-> TRUE, items |-> PREFERRED_PRODUCTS] ELSE b

\* sanitize falling back to the preferred list instead of ['transactions']
sanitize_Preferred(prods) ==
    LET c == cleanProducts(prods) IN IF Len(c) = 0 THEN PREFERRED_PRODUCTS ELSE c

\* let products = cleanProducts(prods); if (products.length === 0) products = ['transactions'];
sanitize(prods) ==
    LET c == cleanProducts(prods) IN IF Len(c) = 0 THEN <<"transactions">> ELSE c

IsBad(bad, p) == p \in Range(bad)

\* a filter that drops only the product named first
removeBad_FirstNamed(ps, bad) == SelectSeq(ps, LAMBDA p : bad = <<>> \/ p # bad[1])

\* products = products.filter(p => !bad.has(p))
removeBad(ps, bad) == SelectSeq(ps, LAMBDA p : ~IsBad(bad, p))

\* a collapse to both minimal products whatever was requested
minimalMem_Both(ps) == <<"transactions", "auth">>

\* in-memory build: ['transactions','auth'].filter(p => products.includes(p))
minimalMem(ps) == SelectSeq(<<"transactions", "auth">>, LAMBDA p : p \in Range(ps))

\* Postgres build: products.filter(p => p==='transactions' || p==='auth')
minimalPg(ps) == SelectSeq(ps, LAMBDA p : p = "transactions" \/ p = "auth")

\* the branch without `if (!products.length) products = ['transactions']`
minimalViable_NoFallback(v, ps) ==
    IF v = "mem" THEN minimalMem(ps) ELSE minimalPg(ps)

\* the PRODUCTS_NOT_SUPPORTED / PRODUCTS_NOT_ENABLED branch
minimalViable(v, ps) ==
    LET m == IF v = "mem" THEN minimalMem(ps) ELSE minimalPg(ps)
    IN  IF Len(m) = 0 THEN <<"transactions">> ELSE m

NoResult == [status |-> "none"]
Returned(out, used) ==
    [status |-> "returned", link_token |-> out.link_token,
     expiration |-> out.expiration, products_used |-> used]
Thrown(e) == [status |-> "thrown", e |-> e]

\* while (products.length): where control goes after `continue`
loopHead(ps) == IF Len(ps) > 0 THEN "loop" ELSE "last"

NegInit ==
    /\ body \in Bodies
    /\ pc = "entry"
    /\ products = <<>>
    /\ sent = <<>>
    /\ reply = NoReply
    /\ result = NoResult
    /\ history = {}
    /\ onTrack = TRUE

\* entry of linkTokenCreateSmart: sanitize the desired products
Sanitize ==
    /\ pc = "entry"
    /\ products' = sanitize(prodsArgument(variant, body))
    /\ pc' = loopHead(products')
    /\ UNCHANGED <<body, sent, reply, result, history, onTrack>>
    /\ UNCHANGED <<variant, rowVars, storeVars, sumVars>>

\* plaidPost('/link/token/create', { ...baseReq, products }) inside the loop
LoopRequest ==
    /\ pc = "loop"
    /\ Len(sent) < MaxRequests
    /\ sent' = Append(sent, [products |-> products, phase |-> "loop"])
    /\ pc' = "await"
    /\ UNCHANGED <<body, products, reply, result, history, onTrack>>
    /\ UNCHANGED <<variant, rowVars, storeVars, sumVars>>

\* the provider answers the request in flight
ProviderReplies ==
    /\ pc \in {"await", "lastAwait"}
    /\ \E r \in Replies :
        /\ reply' = r
        /\ history' = history \cup {KindOf(r)}
        /\ onTrack' = (onTrack /\ (r.status = "err" => NamesRequested(r.e, sent[Len(sent)].products)))
    /\ pc' = IF pc = "await" THEN "resumed" ELSE "lastResumed"
    /\ UNCHANGED <<body, products, sent, result>>
    /\ UNCHANGED <<variant, rowVars, storeVars, sumVars>>

\* a return that reports the sanitized desired list instead of the accepted one
LoopReturn_Desired ==
    /\ pc = "resumed"
    /\ reply.status = "ok"
    /\ result' = Returned(reply.out, sanitize(prodsArgument(variant, body)))
    /\ pc' = "done"
    /\ UNCHANGED <<body, products, sent, history, onTrack>>
    /\ reply' = NoReply
    /\ UNCHANGED <<variant, rowVars, storeVars, sumVars>>

\* return { ...out, products_used: products }
LoopReturn ==
    /\ pc = "resumed"
    /\ reply.status = "ok"
    /\ result' = Returned(reply.out, products)
    /\ pc' = "done"
    /\ UNCHANGED <<body, products, sent, history, onTrack>>
    /\ reply' = NoReply
    /\ UNCHANGED <<variant, rowVars, storeVars, sumVars>>

\* catch (e): code === 'INVALID_PRODUCT'
CatchInvalidProduct ==
    /\ pc = "resumed"
    /\ reply.status = "err"
    /\ codeOf(reply.e) = "INVALID_PRODUCT"
    /\ products' = removeBad(products, parseInvalidProducts(reply.e))
    /\ pc' = IF Len(products') = 0 THEN "last" ELSE loopHead(products')
    /\ UNCHANGED <<body, sent, result, history, onTrack>>
    /\ reply' = NoReply
    /\ UNCHANGED <<variant, rowVars, storeVars, sumVars>>

\* catch (e): code === 'PRODUCTS_NOT_SUPPORTED' || code === 'PRODUCTS_NOT_ENABLED'
CatchNotEnabled ==
    /\ pc = "resumed"
    /\ reply.status = "err"
    /\ codeOf(reply.e) \in {"PRODUCTS_NOT_SUPPORTED", "PRODUCTS_NOT_ENABLED"}
    /\ products' = minimalViable(variant, products)
    /\ pc' = loopHead(products')
    /\ UNCHANGED <<body, sent, result, history, onTrack>>
    /\ reply' = NoReply
    /\ UNCHANGED <<variant, rowVars, storeVars, sumVars>>

\* a catch that retries instead of rethrowing
CatchOther_Retries ==
    /\ pc = "resumed"
    /\ reply.status = "err"
    /\ codeOf(reply.e) \notin {"INVALID_PRODUCT", "PRODUCTS_NOT_SUPPORTED", "PRODUCTS_NOT_ENABLED"}
    /\ pc' = loopHead(products)
    /\ UNCHANGED <<body, products, sent, result, history, onTrack>>
    /\ reply' = NoReply
    /\ UNCHANGED <<variant, rowVars, storeVars, sumVars>>

\* catch (e): throw e
CatchOther ==
    /\ pc = "resumed"
    /\ reply.status = "err"
    /\ codeOf(reply.e) \notin {"INVALID_PRODUCT", "PRODUCTS_NOT_SUPPORTED", "PRODUCTS_NOT_ENABLED"}
    /\ result' = Thrown(reply.e)
    /\ pc' = "done"
    /\ UNCHANGED <<body, products, sent, history, onTrack>>
    /\ reply' = NoReply
    /\ UNCHANGED <<variant, rowVars, storeVars, sumVars>>

\* after the loop: plaidPost('/link/token/create', { ...baseReq, products: ['transactions'] })
LastResortRequest ==
    /\ pc = "last"
    /\ Len(sent) < MaxRequests
    /\ sent' = Append(sent, [products |-> <<"transactions">>, phase |-> "last"])
    /\ pc' = "lastAwait"
    /\ UNCHANGED <<body, products, reply, result, history, onTrack>>
    /\ UNCHANGED <<variant, rowVars, storeVars, sumVars>>

\* return { ...out, products_used: ['transactions'] }
LastResortReturn ==
    /\ pc = "lastResumed"
    /\ reply.status = "ok"
    /\ result' = Returned(reply.out, <<"transactions">>)
    /\ pc' = "done"
    /\ UNCHANGED <<body, products, sent, history, onTrack>>
    /\ reply' = NoReply
    /\ UNCHANGED <<variant, rowVars, storeVars, sumVars>>

\* a last resort that tries again when the rejection is INVALID_PRODUCT
LastResortThrow_Retries ==
    /\ pc = "lastResumed"
    /\ reply.status = "err"
    /\ IF codeOf(reply.e) = "INVALID_PRODUCT"
       THEN pc' = "last" /\ result' = result
       ELSE pc' = "done" /\ result' = Thrown(reply.e)
    /\ UNCHANGED <<body, products, sent, history, onTrack>>
    /\ reply' = NoReply
    /\ UNCHANGED <<variant, rowVars, storeVars, sumVars>>

\* the awaited last-resort request rejects: the rejection leaves the function
LastResortThrow ==
    /\ pc = "lastResumed"
    /\ reply.status = "err"
    /\ result' = Thrown(reply.e)
    /\ pc' = "done"
    /\ UNCHANGED <<body, products, sent, history, onTrack>>
    /\ reply' = NoReply
    /\ UNCHANGED <<variant, rowVars, storeVars, sumVars>>

\* ------------------------------------------------------------ token store
Users == { "default", "u2" }

AccessTokens == { "access-a", "access-b" }

\* data routes that need the user's token; "/summary" stands for buildSummary,
\* whose four fetches all carry the one token it looked up
DataRoutes ==
    { "/plaid/accounts", "/plaid/transactions", "/plaid/liabilities",
      "/plaid/investments/holdings", "/summary" }

\* tokens.get(userId) / getToken(userId)
getToken(store, userId) == store[userId]

\* tokens.set(userId, token) / setToken(userId, token)
setToken(store, userId, token) == [store EXCEPT ![userId] = token]

\* a delete that empties the whole store
deleteToken_All(store, userId) == [u \in DOMAIN store |-> ""]

\* tokens.delete(userId) / deleteToken(userId)
deleteToken(store, userId) == [store EXCEPT ![userId] = ""]

Awaiting(route, userId, token) == [route |-> route, user |-> userId, access_token |-> token]

Await(h) == inflight (+) SetToBag({h})
Settle(h) == inflight (-) SetToBag({h})

Respond(route, userId, status, text) ==
    [route |-> route, user |-> userId, status |-> status, text |-> text]

NoResponse == Respond("", "", 0, "")

\* a provider rejection of a request that carries a token or a public_token
ItemError == PlaidError("ITEM_LOGIN_REQUIRED", "", "", 400)

\* what /item/public_token/exchange resolves with
ExchangeData(t) == [access_token |-> t, item_id |-> "item-1"]

\* the values a JSON object carries
Values(obj) == { obj[k] : k \in DOMAIN obj }

\* json(res, status, { error: code, details: err }): the strings of the body
ErrorPayload(e) ==
    {IF e.error_code # "" THEN e.error_code ELSE "PLAID_ERROR"}
        \cup ({e.error_code, e.error, e.error_message} \ {""})

StoreInit ==
    /\ rows = <<>>
    /\ revoked = {}
    /\ removal = "none"
    /\ tokens = [u \in Users |-> ""]
    /\ inflight = EmptyBag
    /\ response = NoResponse
    /\ granted = [u \in Users |-> ""]
    /\ payload = {}

\* POST /plaid/exchange_public_token without a public_token
ExchangeMissingPublicToken(u) ==
    /\ removal' = "none"
    /\ response' = Respond("/plaid/exchange_public_token", u, 400, "MISSING_PUBLIC_TOKEN")
    /\ payload' = {"MISSING_PUBLIC_TOKEN"}
    /\ UNCHANGED <<tokens, inflight, granted>>
    /\ UNCHANGED <<variant, rowVars, negVars, sumVars>>

\* POST /plaid/exchange_public_token: plaidPost('/item/public_token/exchange', ...)
ExchangeRequest(u) ==
    /\ removal' = "none"
    /\ BagCardinality(inflight) < MaxInflight
    /\ inflight' = Await(Awaiting("/plaid/exchange_public_token", u, ""))
    /\ UNCHANGED <<tokens, response, granted, payload>>
    /\ UNCHANGED <<variant, rowVars, negVars, sumVars>>

\* an exchange that answers with the provider's whole data object
ExchangeResolved_EchoesData(h, t) ==
    /\ removal' = "none"
    /\ BagIn(h, inflight)
    /\ h.route = "/plaid/exchange_public_token"
    /\ tokens' = setToken(tokens, h.user, t)
    /\ inflight' = Settle(h)
    /\ response' = Respond(h.route, h.user, 200, "stored_for_user")
    /\ payload' = Values(ExchangeData(t)) \cup {h.user}
    /\ granted' = [granted EXCEPT ![h.user] = t]
    /\ UNCHANGED <<variant, rowVars, negVars, sumVars>>

\* the exchange resolves: store data.access_token for the user, answer 200
ExchangeResolved(h, t) ==
    /\ removal' = "none"
    /\ BagIn(h, inflight)
    /\ h.route = "/plaid/exchange_public_token"
    /\ tokens' = setToken(tokens, h.user, t)
    /\ inflight' = Settle(h)
    /\ response' = Respond(h.route, h.user, 200, "stored_for_user")
    /\ payload' = {ExchangeData(t).item_id, h.user}
    /\ granted' = [granted EXCEPT ![h.user] = t]
    /\ UNCHANGED <<variant, rowVars, negVars, sumVars>>

\* a failed exchange that forgets the credential stored before
ExchangeRejected_ClearsToken(h) ==
    /\ removal' = "none"
    /\ BagIn(h, inflight)
    /\ h.route = "/plaid/exchange_public_token"
    /\ inflight' = Settle(h)
    /\ response' = Respond(h.route, h.user, ItemError.http_status, ItemError.error_code)
    /\ payload' = ErrorPayload(ItemError)
    /\ tokens' = deleteToken(tokens, h.user)
    /\ granted' = [granted EXCEPT ![h.user] = ""]
    /\ UNCHANGED <<variant, rowVars, negVars, sumVars>>

\* the exchange rejects: the error is answered, the store is not touched
ExchangeRejected(h) ==
    /\ removal' = "none"
    /\ BagIn(h, inflight)
    /\ h.route = "/plaid/exchange_public_token"
    /\ inflight' = Settle(h)
    /\ response' = Respond(h.route, h.user, ItemError.http_status, ItemError.error_code)
    /\ payload' = ErrorPayload(ItemError)
    /\ UNCHANGED <<tokens, granted>>
    /\ UNCHANGED <<variant, rowVars, negVars, sumVars>>

\* a data route that sends its request whether or not a token is stored
DataFetch_NoCheck(u, route) ==
    /\ removal' = "none"
    /\ BagCardinality(inflight) < MaxInflight
    /\ inflight' = Await(Awaiting(route, u, getToken(tokens, u)))
    /\ UNCHANGED <<tokens, response, granted, payload>>
    /\ UNCHANGED <<variant, rowVars, negVars, sumVars>>

\* a data route or /summary: look the token up; without one answer at once,
\* with one send the provider request(s) carrying it
DataFetch(u, route) ==
    /\ removal' = "none"
    /\ UNCHANGED <<variant, rowVars, negVars, sumVars>>
    /\ LET token == getToken(tokens, u)
       IN  IF token = ""
           THEN /\ response' = IF route = "/summary"
                               THEN Respond(route, u, 200, "linked:false")
                               ELSE Respond(route, u, 401, "NO_LINKED_ITEM_FOR_USER")
                /\ payload' = IF route = "/summary" THEN {"linked:false"}
                              ELSE {"NO_LINKED_ITEM_FOR_USER"}
                /\ UNCHANGED <<tokens, inflight, granted>>
           ELSE /\ BagCardinality(inflight) < MaxInflight
                /\ inflight' = Await(Awaiting(route, u, token))
                /\ UNCHANGED <<tokens, response, granted, payload>>

\* the provider answers a data request (ok = it resolved)
DataFetchSettled(h, ok) ==
    /\ removal' = "none"
    /\ BagIn(h, inflight)
    /\ h.route \in DataRoutes
    /\ inflight' = Settle(h)
    /\ response' =
         IF h.route = "/summary" THEN Respond(h.route, h.user, 200, "linked:true")
         ELSE IF ok THEN Respond(h.route, h.user, 200, "data")
         ELSE IF variant = "mem"
              THEN Respond(h.route, h.user, ItemError.http_status, ItemError.error_code)
              ELSE Respond(h.route, h.user, 500, "SERVER_ERROR")
    /\ payload' =
         IF h.route = "/summary" THEN {"linked:true", h.user, "kpis"}
         ELSE IF ok THEN {"data"}
         ELSE IF variant = "mem" THEN ErrorPayload(ItemError)
         ELSE {"SERVER_ERROR"}
    /\ UNCHANGED <<tokens, granted>>
    /\ UNCHANGED <<variant, rowVars, negVars, sumVars>>

\* POST /plaid/unlink: look the token up, then plaidPost('/item/remove', ...)
UnlinkRequest(u) ==
    /\ removal' = "none"
    /\ UNCHANGED <<variant, rowVars, negVars, sumVars>>
    /\ LET token == getToken(tokens, u)
       IN  IF token = ""
           THEN /\ response' = Respond("/plaid/unlink", u, 200, "Nothing to unlink")
                /\ payload' = {"ok", "Nothing to unlink"}
                /\ UNCHANGED <<tokens, inflight, granted>>
           ELSE /\ BagCardinality(inflight) < MaxInflight
                /\ inflight' = Await(Awaiting("/plaid/unlink", u, token))
                /\ UNCHANGED <<tokens, response, granted, payload>>

\* /item/remove resolves: delete the user's entry, answer 200
UnlinkResolved(h) ==
    /\ removal' = "accepted"
    /\ BagIn(h, inflight)
    /\ h.route = "/plaid/unlink"
    /\ tokens' = deleteToken(tokens, h.user)
    /\ inflight' = Settle(h)
    /\ response' = Respond(h.route, h.user, 200, "ok")
    /\ payload' = {"ok"}
    /\ granted' = [granted EXCEPT ![h.user] = ""]
    /\ UNCHANGED <<variant, rowVars, negVars, sumVars>>

\* /item/remove rejects.  In-memory build: the error is answered and the entry
\* stays.  Postgres build: the rejection is swallowed and the entry deleted.
UnlinkRejected(h) ==
    /\ removal' = "rejected"
    /\ BagIn(h, inflight)
    /\ h.route = "/plaid/unlink"
    /\ inflight' = Settle(h)
    /\ IF variant = "mem"
       THEN /\ response' = Respond(h.route, h.user, ItemError.http_status, ItemError.error_code)
            /\ payload' = ErrorPayload(ItemError)
            /\ UNCHANGED <<tokens, granted>>
       ELSE /\ tokens' = deleteToken(tokens, h.user)
            /\ response' = Respond(h.route, h.user, 200, "ok")
            /\ payload' = {"ok"}
            /\ granted' = [granted EXCEPT ![h.user] = ""]
    /\ UNCHANGED <<variant, rowVars, negVars, sumVars>>

\* POST /user/delete: purge the user's entry
UserDelete(u) ==
    /\ removal' = "none"
    /\ tokens' = deleteToken(tokens, u)
    /\ response' = Respond("/user/delete", u, 200, "ok")
    /\ payload' = {"ok"}
    /\ granted' = [granted EXCEPT ![u] = ""]
    /\ UNCHANGED inflight
    /\ UNCHANGED <<variant, rowVars, negVars, sumVars>>

Handlers == BagToSet(inflight)

\* ------------------------------------- token table, one row per exchange
\* access tokens the provider issues; each exchange yields one not issued before
RowTokens == { "access-a", "access-b", "access-c" }

Row(userId, token) == [user_id |-> userId, access_token |-> token]

\* tokens stored or revoked so far
Issued == { rows[i].access_token : i \in DOMAIN rows } \cup revoked

\* SELECT ... WHERE user_id = $1: the user's rows, oldest first
rowsOf(table, userId) == SelectSeq(table, LAMBDA r : r.user_id = userId)

\* getLatestToken(userId): ORDER BY created_at DESC LIMIT 1; <<>> stands for null
getLatestToken(table, userId) ==
    LET mine == rowsOf(table, userId)
    IN  IF mine = <<>> THEN <<>> ELSE <<mine[Len(mine)]>>

\* DELETE FROM tokens WHERE user_id = $1
deleteRows(table, userId) == SelectSeq(table, LAMBDA r : r.user_id # userId)

\* POST /plaid/exchange_public_token without a public_token
RowsExchangeMissingPublicToken(u) ==
    /\ response' = Respond("/plaid/exchange_public_token", u, 400, "NO_PUBLIC_TOKEN")
    /\ payload' = {"NO_PUBLIC_TOKEN"}
    /\ removal' = "none"
    /\ UNCHANGED <<tokens, inflight, granted, rows, revoked>>
    /\ UNCHANGED <<variant, negVars, sumVars>>

\* POST /plaid/exchange_public_token: plaidClient.itemPublicTokenExchange(...)
RowsExchangeRequest(u) ==
    /\ BagCardinality(inflight) < MaxInflight
    /\ inflight' = Await(Awaiting("/plaid/exchange_public_token", u, ""))
    /\ removal' = "none"
    /\ UNCHANGED <<tokens, response, granted, payload, rows, revoked>>
    /\ UNCHANGED <<variant, negVars, sumVars>>

\* the exchange resolves: INSERT a new row for the user, answer { ok, item_id }
RowsExchangeResolved(h, t) ==
    /\ BagIn(h, inflight)
    /\ h.route = "/plaid/exchange_public_token"
    /\ t \notin Issued
    /\ Len(rows) < MaxRows
    /\ rows' = Append(rows, Row(h.user, t))
    /\ inflight' = Settle(h)
    /\ response' = Respond(h.route, h.user, 200, "ok")
    /\ payload' = {"ok", ExchangeData(t).item_id}
    /\ removal' = "none"
    /\ UNCHANGED <<tokens, granted, revoked>>
    /\ UNCHANGED <<variant, negVars, sumVars>>

\* the exchange rejects: answer 500 EXCHANGE_FAIL
RowsExchangeRejected(h) ==
    /\ BagIn(h, inflight)
    /\ h.route = "/plaid/exchange_public_token"
    /\ inflight' = Settle(h)
    /\ response' = Respond(h.route, h.user, 500, "EXCHANGE_FAIL")
    /\ payload' = {"EXCHANGE_FAIL"} \cup ErrorPayload(ItemError)
    /\ removal' = "none"
    /\ UNCHANGED <<tokens, granted, rows, revoked>>
    /\ UNCHANGED <<variant, negVars, sumVars>>

\* POST /plaid/item/remove: look the latest row up, then plaidClient.itemRemove(...)
RowsRemoveRequest(u) ==
    /\ removal' = "none"
    /\ UNCHANGED <<tokens, granted, rows, revoked>>
    /\ UNCHANGED <<variant, negVars, sumVars>>
    /\ LET row == getLatestToken(rows, u)
       IN  IF row = <<>>
           THEN /\ response' = Respond("/plaid/item/remove", u, 400, "NO_LINKED_ITEM_FOR_USER")
                /\ payload' = {"NO_LINKED_ITEM_FOR_USER"}
                /\ UNCHANGED inflight
           ELSE /\ BagCardinality(inflight) < MaxInflight
                /\ inflight' = Await(Awaiting("/plaid/item/remove", u, row[1].access_token))
                /\ UNCHANGED <<response, payload>>

\* itemRemove resolves: the provider has revoked the token it was given;
\* DELETE every row of the user, answer { ok: true }
RowsRemoveResolved(h) ==
    /\ BagIn(h, inflight)
    /\ h.route = "/plaid/item/remove"
    /\ revoked' = revoked \cup {h.access_token}
    /\ rows' = deleteRows(rows, h.user)
    /\ inflight' = Settle(h)
    /\ response' = Respond(h.route, h.user, 200, "ok")
    /\ payload' = {"ok"}
    /\ removal' = "accepted"
    /\ UNCHANGED <<tokens, granted>>
    /\ UNCHANGED <<variant, negVars, sumVars>>

\* itemRemove rejects: answer 500 ITEM_REMOVE_FAIL, the table is not touched
RowsRemoveRejected(h) ==
    /\ BagIn(h, inflight)
    /\ h.route = "/plaid/item/remove"
    /\ inflight' = Settle(h)
    /\ response' = Respond(h.route, h.user, 500, "ITEM_REMOVE_FAIL")
    /\ payload' = {"ITEM_REMOVE_FAIL"} \cup ErrorPayload(ItemError)
    /\ removal' = "rejected"
    /\ UNCHANGED <<tokens, granted, rows, revoked>>
    /\ UNCHANGED <<variant, negVars, sumVars>>

\* ------------------------------------------------------------- numbers
\* Amounts are exact and counted in mills (thousandths of a dollar), so a
\* cent is 10 and sub-cent amounts exist.
Dollars(n) == n * 1000

\* a number that may be missing (null, undefined or not numeric) in provider JSON
Missing == <<>>
Num(n) == <<n>>

Abs(n) == IF n < 0 THEN 0 - n ELSE n

\* JavaScript numbers are binary floating point: a result that needs more
\* than MantissaBits significant bits is rounded to the nearest number that
\* has them, a tie going to the even significand.  Amounts up to
\* 2^MantissaBits mills are exact.
RECURSIVE Spacing(_, _)
Spacing(a, q) == IF a \div q < 2^MantissaBits THEN q ELSE Spacing(a, 2 * q)

fl(x) ==
    LET q == Spacing(Abs(x), 1)
        lo == (Abs(x) \div q) * q
        r == Abs(x) - lo
        nearest == IF 2 * r > q \/ (2 * r = q /\ (lo \div q) % 2 = 1) THEN lo + q ELSE lo
    IN  IF x < 0 THEN 0 - nearest ELSE nearest

\* a + b, a - b, a * b
plus(a, b) == fl(a + b)
minus(a, b) == fl(a - b)
times(a, b) == fl(a * b)

\* function sum(arr) { return (arr||[]).reduce((a,b)=>a+(+b||0),0); }
RECURSIVE reduce(_, _)
reduce(a, arr) == IF arr = <<>> THEN a ELSE reduce(plus(a, arr[1]), Tail(arr))

sum(arr) == reduce(0, arr)

\* function money(n) { return Math.round((+n||0)*100)/100; }
\* Math.round takes the nearest cent and a half cent upwards.
money(n) == fl(10 * ((n + 5) \div 10))

\* Infinity stands above every amount: the largest integer there is here
Infinity == 2^30 + (2^30 - 1)

\* money(a / b) for b >= 0: the quotient to two decimals, on the scale
\* 1000 = 1.00.  x / 0 is Infinity or -Infinity, which money leaves as it is;
\* 0 / 0 is NaN, which money turns into 0 (+n || 0).
moneyOfQuotient(a, b) ==
    IF b # 0 THEN 10 * ((200 * a + b) \div (2 * b))
    ELSE IF a > 0 THEN Infinity
    ELSE IF a < 0 THEN 0 - Infinity
    ELSE 0

RECURSIVE GCD(_, _)
GCD(a, b) == IF b = 0 THEN a ELSE GCD(b, a % b)

\* the quotient n / d (d > 0) as a fraction in lowest terms
Quotient(n, d) == <<n \div GCD(Abs(n), d), d \div GCD(Abs(n), d)>>

Below(r, s) == r[1] * s[2] < s[1] * r[2]
MathMin(r, s) == IF Below(s, r) THEN s ELSE r
MathMax(r, s) == IF Below(r, s) THEN s ELSE r

\* ------------------------------------------------- provider data (Plaid)
\* /accounts/balance/get
Accounts ==
    [type : {"depository", "credit"}, subtype : {"checking", "savings", "cd"},
     available : {Missing, Num(100004)}, current : {Missing, Num(Dollars(50))}]

AccountsData == { [accounts |-> q] : q \in SeqsUpTo(Accounts, MaxAccounts) }

\* /liabilities/get
LiabilitiesData ==
    { [liabilities |-> [credit |-> c, student |-> s, mortgage |-> m, auto |-> a]] :
        c \in {<<>>, <<Missing>>, <<Num(Dollars(300)), Num(25006)>>},
        s \in {<<>>, <<Num(Dollars(40))>>},
        m \in {<<>>, <<Num(Dollars(900))>>},
        a \in {<<>>, <<Num(Dollars(7))>>} }

\* /investments/holdings/get
SecurityIds == {"s1", "s2"}

Securities ==
    [security_id : SecurityIds, close_price : {Missing, Num(0), Num(12346)},
     price : {Missing, Num(Dollars(10))}]

SecurityLists ==
    { q \in SeqsUpTo(Securities, 2) :
        Len(q) = 2 => (q[1].security_id = "s1" /\ q[2].security_id = "s2") }

Holdings ==
    [security_id : SecurityIds, institution_value : {Missing, Num(Dollars(70))},
     quantity : {Missing, Num(3)}]

HoldingsData ==
    { [holdings |-> h, securities |-> s] :
        h \in SeqsUpTo(Holdings, MaxHoldings), s \in SecurityLists }

\* /transactions/get
Amounts == {0 - Dollars(100), 0 - 30004, 0, Dollars(7), Dollars(80), Dollars(250)}

TransactionsData == { [transactions |-> t] : t \in SeqsUpTo(Amounts, MaxTransactions) }

\* amounts so large that adding a small one to them rounds
Big == 2^(MantissaBits + 6)
LargeAmounts == {0 - (Big + 256), 0 - 64, 64, 70, Big + 128}

\* windows in which each very large amount occurs at most once
LargeTransactionsData ==
    { [transactions |-> t] :
        t \in { q \in SeqsUpTo(LargeAmounts, MaxLargeTransactions) :
                   \A i, j \in DOMAIN q : (i # j /\ Abs(q[i]) >= Big) => q[i] # q[j] } }

\* one linked item as the provider holds it
ItemData ==
    [accounts |->
        [accounts |-> << [type |-> "depository", subtype |-> "checking",
                          available |-> Num(100004), current |-> Num(Dollars(50))],
                         [type |-> "credit", subtype |-> "savings",
                          available |-> Missing, current |-> Num(Dollars(50))] >>],
     liabilities |->
        [liabilities |-> [credit |-> <<Num(Dollars(300))>>, student |-> <<>>,
                          mortgage |-> <<>>, auto |-> <<Num(Dollars(7))>>]],
     holdings |->
        [holdings |-> << [security_id |-> "s1", institution_value |-> Missing,
                          quantity |-> Num(3)] >>,
         securities |-> << [security_id |-> "s1", close_price |-> Num(12346),
                            price |-> Missing] >>],
     transactions |-> [transactions |-> <<0 - Dollars(100), Dollars(80)>>]]

\* an item with nothing in it
EmptyItem ==
    [accounts |-> [accounts |-> <<>>],
     liabilities |-> [liabilities |-> [credit |-> <<>>, student |-> <<>>,
                                       mortgage |-> <<>>, auto |-> <<>>]],
     holdings |-> [holdings |-> <<>>, securities |-> <<>>],
     transactions |-> [transactions |-> <<>>]]

\* items made of the parts of the two above
MixedItems ==
    { [s \in DOMAIN ItemData |-> IF s \in full THEN ItemData[s] ELSE EmptyItem[s]] :
        full \in SUBSET DOMAIN ItemData }

\* items that differ from ItemData in one part
VariedItems ==
    { [ItemData EXCEPT !.accounts = d] : d \in AccountsData }
        \cup { [ItemData EXCEPT !.liabilities = d] : d \in LiabilitiesData }
        \cup { [ItemData EXCEPT !.holdings = d] : d \in HoldingsData }
        \cup { [ItemData EXCEPT !.transactions = d] : d \in TransactionsData }

\* ------------------------------------------------------------ GET /summary
\* The four fetches of buildSummary, in the order of its Promise.all array.
Sources == <<"accounts", "liabilities", "holdings", "transactions">>

Pending == [status |-> "pending", value |-> <<>>]
Fulfilled(data) == [status |-> "fulfilled", value |-> <<data>>]
Failed == [status |-> "rejected", value |-> <<>>]

\* what buildSummary returns
SummaryReturned(obj) == [status |-> "returned", value |-> obj]

\* a.balances?.available ?? a.balances?.current ?? 0
balance(a) ==
    IF a.available # Missing THEN a.available[1]
    ELSE IF a.current # Missing THEN a.current[1]
    ELSE 0

\* `r && r.field` (in-memory build), `r.value?.field` (Postgres build): whether
\* the fetch succeeded and its data has the field
has(r, field) == r.status = "fulfilled" /\ field \in DOMAIN r.value[1]

\* (acc && acc.accounts) || []          acc.value?.accounts || []
accountsOf(acc) == IF has(acc, "accounts") THEN acc.value[1].accounts ELSE <<>>

isDepository(a) == a.type = "depository"
isChecking(a) == a.subtype = "checking"
isSavings(a) == a.subtype = "savings"
isOtherCash(a) == a.subtype # "checking" /\ a.subtype # "savings"

\* x.balance?.current ?? 0, x.outstanding_balance ?? 0, x.principal_balance ?? 0
owed(x) == IF x # Missing THEN x[1] ELSE 0

\* totalLiabilities
liabilitiesTotal(liab) ==
    IF has(liab, "liabilities")
    THEN LET L == liab.value[1].liabilities
         IN  money(plus(plus(plus(sum(Map(owed, L.credit)), sum(Map(owed, L.student))),
                             sum(Map(owed, L.mortgage))),
                        sum(Map(owed, L.auto))))
    ELSE 0

\* secMap.get(id) after inv.securities.forEach(s => secMap.set(s.security_id, s))
RECURSIVE secMapGet(_, _)
secMapGet(securities, id) ==
    IF securities = <<>> THEN Missing
    ELSE IF securities[Len(securities)].security_id = id
         THEN <<securities[Len(securities)]>>
         ELSE secMapGet(SubSeq(securities, 1, Len(securities) - 1), id)

\* const px = (sec && (sec.close_price ?? sec.price)) || 0
pxOf(sec) ==
    IF sec = Missing THEN 0
    ELSE IF sec[1].close_price # Missing THEN sec[1].close_price[1]
    ELSE IF sec[1].price # Missing THEN sec[1].price[1]
    ELSE 0

\* a valuation that prefers quantity x price whenever the security is priced
holdingValue_PrefersComputed(h, securities) ==
    IF pxOf(secMapGet(securities, h.security_id)) # 0
    THEN times(owed(h.quantity), pxOf(secMapGet(securities, h.security_id)))
    ELSE owed(h.institution_value)

\* the callback of holdings.map in buildSummary
holdingValue(h, securities) ==
    IF h.institution_value # Missing THEN h.institution_value[1]
    ELSE times(owed(h.quantity), pxOf(secMapGet(securities, h.security_id)))

\* totalInvestments
investmentsTotal(inv) ==
    IF has(inv, "holdings") /\ has(inv, "securities")
    THEN LET data == inv.value[1]
             valueOf(h) == holdingValue(h, data.securities)
         IN  money(sum(Map(valueOf, data.holdings)))
    ELSE 0

isCredit(x) == x < 0
isDebit(x) == x > 0
negated(x) == 0 - x

\* an alternate interpretation that leaves the roles as they were
inverted_KeepsRoles(t) ==
    [income30 |-> money(sum(Map(negated, SelectSeq(t, isCredit)))),
     spend30 |-> money(sum(SelectSeq(t, isDebit)))]

\* the alternate interpretation: positives are income
inverted(t) ==
    [income30 |-> money(sum(SelectSeq(t, isDebit))),
     spend30 |-> money(sum(Map(negated, SelectSeq(t, isCredit))))]

\* a classification that inverts whenever income is below spend
classify_InvertsOnNaive(t) ==
    LET credits == money(sum(Map(negated, SelectSeq(t, isCredit))))
        debits == money(sum(SelectSeq(t, isDebit)))
    IN  IF credits < debits
        THEN inverted(t)
        ELSE [income30 |-> credits, spend30 |-> debits]

\* income30 and spend30 of a present transaction list
classify(t) ==
    LET credits == money(sum(Map(negated, SelectSeq(t, isCredit))))
        debits == money(sum(SelectSeq(t, isDebit)))
    IN  IF credits < debits /\ sum(t) < 0
        THEN inverted(t)
        ELSE [income30 |-> credits, spend30 |-> debits]

\* Math.max(0, Math.min(1, netCashFlow / income30))
clamp01(netCashFlow, income30) ==
    MathMax(<<0, 1>>, MathMin(<<1, 1>>, Quotient(netCashFlow, income30)))

\* the transaction KPIs of the in-memory build (the `if (tx && tx.transactions)` statement)
transactionKpis(tx) ==
    IF has(tx, "transactions")
    THEN LET c == classify(tx.value[1].transactions)
             netCashFlow == money(minus(c.income30, c.spend30))
         IN  [income30 |-> c.income30, spend30 |-> c.spend30,
              netCashFlow |-> netCashFlow,
              monthlySpend |-> IF c.spend30 # 0 THEN c.spend30 ELSE Dollars(2000),
              savingsRate |-> IF c.income30 # 0 THEN clamp01(netCashFlow, c.income30)
                              ELSE <<0, 1>>]
    ELSE [income30 |-> 0, spend30 |-> 0, netCashFlow |-> 0,
          monthlySpend |-> Dollars(2000), savingsRate |-> Quotient(20, 100)]

\* kpis whose runway divides by spend30 instead of monthlySpend
kpisMem_RunwayBySpend(acc, liab, inv, tx) ==
    LET cashAccts == SelectSeq(accountsOf(acc), isDepository)
        checking == money(sum(Map(balance, SelectSeq(cashAccts, isChecking))))
        savings == money(sum(Map(balance, SelectSeq(cashAccts, isSavings))))
        cashOther == money(sum(Map(balance, SelectSeq(cashAccts, isOtherCash))))
        totalCash == money(plus(plus(checking, savings), cashOther))
        totalLiabilities == liabilitiesTotal(liab)
        totalInvestments == investmentsTotal(inv)
        t == transactionKpis(tx)
    IN  [netWorth |-> money(minus(plus(totalCash, totalInvestments), totalLiabilities)),
         totalCash |-> totalCash, checking |-> checking, savings |-> savings,
         cashOther |-> cashOther,
         totalInvestments |-> totalInvestments, totalLiabilities |-> totalLiabilities,
         income30 |-> t.income30, spend30 |-> t.spend30, netCashFlow |-> t.netCashFlow,
         monthlySpend |-> t.monthlySpend, savingsRate |-> t.savingsRate,
         runwayMonths |-> IF t.monthlySpend # 0
                          THEN moneyOfQuotient(totalCash, t.spend30) ELSE 0]

\* kpis of the in-memory build
kpisMem(acc, liab, inv, tx) ==
    LET cashAccts == SelectSeq(accountsOf(acc), isDepository)
        checking == money(sum(Map(balance, SelectSeq(cashAccts, isChecking))))
        savings == money(sum(Map(balance, SelectSeq(cashAccts, isSavings))))
        cashOther == money(sum(Map(balance, SelectSeq(cashAccts, isOtherCash))))
        totalCash == money(plus(plus(checking, savings), cashOther))
        totalLiabilities == liabilitiesTotal(liab)
        totalInvestments == investmentsTotal(inv)
        t == transactionKpis(tx)
    IN  [netWorth |-> money(minus(plus(totalCash, totalInvestments), totalLiabilities)),
         totalCash |-> totalCash, checking |-> checking, savings |-> savings,
         cashOther |-> cashOther,
         totalInvestments |-> totalInvestments, totalLiabilities |-> totalLiabilities,
         income30 |-> t.income30, spend30 |-> t.spend30, netCashFlow |-> t.netCashFlow,
         monthlySpend |-> t.monthlySpend, savingsRate |-> t.savingsRate,
         runwayMonths |-> IF t.monthlySpend # 0
                          THEN moneyOfQuotient(totalCash, t.monthlySpend) ELSE 0]

\* kpis of the Postgres build
kpisPg(acc, liab, inv, tx) ==
    LET accounts == accountsOf(acc)
        totalCash == money(sum(Map(balance, SelectSeq(accounts, isDepository))))
        totalLiabilities == liabilitiesTotal(liab)
        totalInvestments == investmentsTotal(inv)
        c == IF has(tx, "transactions") THEN classify(tx.value[1].transactions)
             ELSE [income30 |-> 0, spend30 |-> 0]
        netCashFlow == IF has(tx, "transactions") THEN money(minus(c.income30, c.spend30)) ELSE 0
        monthlySpend == IF c.spend30 # 0 THEN c.spend30 ELSE Dollars(2000)
    IN  [netWorth |-> money(minus(plus(totalCash, totalInvestments), totalLiabilities)),
         totalCash |-> totalCash,
         checking |-> money(sum(Map(balance, SelectSeq(accounts, isChecking)))),
         savings |-> money(sum(Map(balance, SelectSeq(accounts, isSavings)))),
         totalInvestments |-> totalInvestments, totalLiabilities |-> totalLiabilities,
         income30 |-> c.income30, spend30 |-> c.spend30, netCashFlow |-> netCashFlow,
         monthlySpend |-> monthlySpend,
         runwayMonths |-> IF monthlySpend # 0
                          THEN moneyOfQuotient(totalCash, monthlySpend) ELSE 0]

\* the object buildSummary returns once the four fetches have settled
summaryOf(build, userId, acc, liab, inv, tx) ==
    [linked |-> TRUE, userId |-> userId, accounts |-> accountsOf(acc),
     kpis |-> IF build = "mem" THEN kpisMem(acc, liab, inv, tx)
              ELSE kpisPg(acc, liab, inv, tx)]

\* results handed over in the order the fetches completed
gathered_ByArrival(slots, order) == [i \in 1..Len(order) |-> slots[order[i]]]

\* const [acc, liab, inv, tx] = await Promise.all([...]): results by array position
gathered(slots, order) == slots

AllSettled == \A i \in DOMAIN Sources : settled[i] # Pending

SumIdle ==
    /\ spc = "idle"
    /\ settled = [i \in DOMAIN Sources |-> Pending]
    /\ arrival = <<>>
    /\ report = NoResult
    /\ summaryUser = ""

\* buildSummary for a user without a stored token
SummaryNotLinked(u) ==
    /\ spc = "idle"
    /\ tokens[u] = ""
    /\ spc' = "done"
    /\ summaryUser' = u
    /\ report' = SummaryReturned([linked |-> FALSE])
    /\ UNCHANGED <<settled, arrival, upstream>>
    /\ UNCHANGED <<variant, rowVars, negVars, storeVars>>

\* buildSummary reads the token and issues the four fetches
SummaryFanOut(u) ==
    /\ spc = "idle"
    /\ tokens[u] # ""
    /\ spc' = "awaiting"
    /\ summaryUser' = u
    /\ UNCHANGED <<settled, arrival, upstream, report>>
    /\ UNCHANGED <<variant, rowVars, negVars, storeVars>>

\* one fetch resolves with the provider's data
FetchFulfilled(i) ==
    /\ spc = "awaiting"
    /\ settled[i] = Pending
    /\ settled' = [settled EXCEPT ![i] = Fulfilled(upstream[Sources[i]])]
    /\ arrival' = Append(arrival, i)
    /\ UNCHANGED <<spc, summaryUser, report, upstream>>
    /\ UNCHANGED <<variant, rowVars, negVars, storeVars>>

\* a failed fetch that makes the whole summary fail
FetchRejected_Propagates(i) ==
    /\ spc = "awaiting"
    /\ settled[i] = Pending
    /\ settled' = [settled EXCEPT ![i] = Failed]
    /\ arrival' = Append(arrival, i)
    /\ spc' = "done"
    /\ report' = Thrown(ItemError)
    /\ UNCHANGED <<summaryUser, upstream>>
    /\ UNCHANGED <<variant, rowVars, negVars, storeVars>>

\* one fetch fails: the helper catches and returns null (in-memory build),
\* Promise.allSettled records the rejection (Postgres build)
FetchRejected(i) ==
    /\ spc = "awaiting"
    /\ settled[i] = Pending
    /\ settled' = [settled EXCEPT ![i] = Failed]
    /\ arrival' = Append(arrival, i)
    /\ UNCHANGED <<spc, summaryUser, report, upstream>>
    /\ UNCHANGED <<variant, rowVars, negVars, storeVars>>

\* all four have settled: buildSummary computes and returns the report
SummaryReturn ==
    /\ spc = "awaiting"
    /\ AllSettled
    /\ LET r == gathered(settled, arrival)
       IN  report' = SummaryReturned(summaryOf(variant, summaryUser, r[1], r[2], r[3], r[4]))
    /\ spc' = "done"
    /\ UNCHANGED <<summaryUser, settled, arrival, upstream>>
    /\ UNCHANGED <<variant, rowVars, negVars, storeVars>>

\* ------------------------------------------------------- specifications
vars == <<variant, body, pc, products, sent, reply, result, history, onTrack,
          tokens, inflight, response, granted, payload, removal, rows, revoked,
          upstream, spc, summaryUser, settled, arrival, report>>

NegIdle ==
    /\ body = [given |-> FALSE, items |-> <<>>]
    /\ pc = "idle"
    /\ products = <<>>
    /\ sent = <<>>
    /\ reply = NoReply
    /\ result = NoResult
    /\ history = {}
    /\ onTrack = TRUE

\* one call of linkTokenCreateSmart against an arbitrary provider
Init == variant \in {"mem", "pg"} /\ NegInit /\ StoreInit /\ SumIdle /\ upstream = ItemData

Next ==
    \/ Sanitize
    \/ LoopRequest
    \/ ProviderReplies
    \/ LoopReturn
    \/ CatchInvalidProduct
    \/ CatchNotEnabled
    \/ CatchOther
    \/ LastResortRequest
    \/ LastResortReturn
    \/ LastResortThrow

Spec == Init /\ [][Next]_vars

\* the routes that use the token store, called in any order by any users
StoreSpecInit ==
    variant \in {"mem", "pg"} /\ NegIdle /\ StoreInit /\ SumIdle /\ upstream = ItemData

StoreNext ==
    \/ \E u \in Users : ExchangeMissingPublicToken(u)
    \/ \E u \in Users : ExchangeRequest(u)
    \/ \E h \in Handlers, t \in AccessTokens : ExchangeResolved(h, t)
    \/ \E h \in Handlers : ExchangeRejected(h)
    \/ \E u \in Users, route \in DataRoutes : DataFetch(u, route)
    \/ \E h \in Handlers, ok \in BOOLEAN : DataFetchSettled(h, ok)
    \/ \E u \in Users : UnlinkRequest(u)
    \/ \E h \in Handlers : UnlinkResolved(h)
    \/ \E h \in Handlers : UnlinkRejected(h)
    \/ \E u \in Users : UserDelete(u)

StoreSpec == StoreSpecInit /\ [][StoreNext]_vars

\* the routes of the one-row-per-exchange build, called in any order
RowsInit ==
    variant = "rows" /\ NegIdle /\ StoreInit /\ SumIdle /\ upstream = ItemData

RowsNext ==
    \/ \E u \in Users : RowsExchangeMissingPublicToken(u)
    \/ \E u \in Users : RowsExchangeRequest(u)
    \/ \E h \in Handlers, t \in RowTokens : RowsExchangeResolved(h, t)
    \/ \E h \in Handlers : RowsExchangeRejected(h)
    \/ \E u \in Users : RowsRemoveRequest(u)
    \/ \E h \in Handlers : RowsRemoveResolved(h)
    \/ \E h \in Handlers : RowsRemoveRejected(h)

RowsSpec == RowsInit /\ [][RowsNext]_vars

\* the store after "default" has linked an item and "u2" has not
Linked ==
    /\ rows = <<>>
    /\ revoked = {}
    /\ removal = "none"
    /\ tokens = [u \in Users |-> IF u = "default" THEN "access-a" ELSE ""]
    /\ granted = tokens
    /\ inflight = EmptyBag
    /\ response = Respond("/plaid/exchange_public_token", "default", 200, "stored_for_user")
    /\ payload = {"item-1", "default"}

\* GET /summary: one buildSummary call, its four fetches settling in any order
SummaryInit ==
    /\ variant \in {"mem", "pg"}
    /\ NegIdle
    /\ Linked
    /\ SumIdle
    /\ upstream \in MixedItems

SummaryNext ==
    \/ \E u \in Users : SummaryNotLinked(u)
    \/ \E u \in Users : SummaryFanOut(u)
    \/ \E i \in DOMAIN Sources : FetchFulfilled(i)
    \/ \E i \in DOMAIN Sources : FetchRejected(i)
    \/ SummaryReturn

SummarySpec == SummaryInit /\ [][SummaryNext]_vars

\* the computation of the report, from every outcome of the four fetches
KpiInit ==
    /\ variant \in {"mem", "pg"}
    /\ NegIdle
    /\ Linked
    /\ spc = "awaiting"
    /\ summaryUser = "default"
    /\ arrival = <<1, 2, 3, 4>>
    /\ report = NoResult
    /\ upstream \in VariedItems
    /\ \E failing \in SUBSET DOMAIN Sources :
            settled = [i \in DOMAIN Sources |->
                          IF i \in failing THEN Failed ELSE Fulfilled(upstream[Sources[i]])]

KpiNext == SummaryReturn

\* the computation of the report from transactions with very large amounts
RoundingInit ==
    /\ variant \in {"mem", "pg"}
    /\ NegIdle
    /\ Linked
    /\ spc = "awaiting"
    /\ summaryUser = "default"
    /\ arrival = <<1, 2, 3, 4>>
    /\ report = NoResult
    /\ \E d \in LargeTransactionsData : upstream = [ItemData EXCEPT !.transactions = d]
    /\ settled = [i \in DOMAIN Sources |-> Fulfilled(upstream[Sources[i]])]

RoundingNext == SummaryReturn

RoundingSpec == RoundingInit /\ [][RoundingNext]_vars

KpiSpec == KpiInit /\ [][KpiNext]_vars

\* ======================================================================
\* Properties of linkTokenCreateSmart
\* ======================================================================
Last(q) == q[Len(q)]

LoopRequests == Cardinality({ i \in DOMAIN sent : sent[i].phase = "loop" })
LastResortRequests == Cardinality({ i \in DOMAIN sent : sent[i].phase = "last" })

\* the products a bracketed list of spellings names
NamedBy(q) == { ProductSpellings[q[i]] : i \in DOMAIN q }

InvalidProductNaming(q) == Rejected(PlaidError("INVALID_PRODUCT", "", InvalidProductMessage(q), 400))

\* a request leaves in this step
Requests == sent' # sent

\* C1: when every answer of the call so far is an INVALID_PRODUCT rejection
\* without a parseable bracketed list, the call has issued no more than the
\* bounded number of loop attempts (4).
C1_NoListTerminates ==
    (history \subseteq {"invalid_nolist"}) => LoopRequests <= 4

\* C2: whatever the provider answers, one call issues at most 4 requests in
\* its attempt loop and at most one last-resort request.
C2_AtMostFourAttempts ==
    LoopRequests <= 4 /\ LastResortRequests <= 1

\* C3: a failure whose code is none of INVALID_PRODUCT, PRODUCTS_NOT_SUPPORTED,
\* PRODUCTS_NOT_ENABLED (no code at all included) is rethrown as it is, and
\* the call issues no request after it.
C3_OtherFailureRethrown ==
    [][ /\ (pc = "resumed" /\ reply.status = "err" /\ reply.e \in OtherErrors)
            => (result' = Thrown(reply.e) /\ pc' = "done" /\ ~Requests)
        /\ (result.status = "thrown") => (~Requests /\ result' = result)
      ]_vars

C3_Witness ==
    /\ result.status = "thrown"
    /\ result.e = PlaidError("", "", "", 0)
    /\ Len(sent) = 2
    /\ Last(sent).phase = "loop"

\* C4: after an INVALID_PRODUCT rejection whose message holds a bracketed
\* list, the product set becomes the current one minus the named products
\* (trimmed, lower-cased), order kept, nothing else removed or added, and the
\* next loop attempt carries exactly that set.
C4_NamedProductsRemoved ==
    [][ /\ \A q \in NamedLists :
            (pc = "resumed" /\ reply = InvalidProductNaming(q))
                => /\ products' = SelectSeq(products, LAMBDA p : p \notin NamedBy(q))
                   /\ (products' # <<>> => pc' = "loop")
                   /\ ~Requests
        /\ (pc = "loop" /\ Requests)
                => sent' = Append(sent, [products |-> products, phase |-> "loop"])
      ]_vars

C4_Witness ==
    /\ Len(sent) = 2
    /\ history = {"invalid_list"}
    /\ sent[1].products = <<"transactions", "auth", "identity", "liabilities", "investments">>
    /\ sent[2] = [products |-> <<"transactions", "liabilities", "investments">>, phase |-> "loop"]

\* C5: a successful return reports as products_used the product list of the
\* request the provider accepted, the last request the call issued.
C5_ProductsUsedIsAccepted ==
    result.status = "returned" => result.products_used = Last(sent).products

C5_Witness ==
    /\ result.status = "returned"
    /\ Len(sent) >= 2
    /\ result.products_used # sent[1].products
    /\ Last(sent).phase = "loop"

\* C6: a desired list with no entry of the known vocabulary (after trimming
\* and lower-casing), the empty list included, makes the first request carry
\* exactly ['transactions'].
NoKnownEntry(b) ==
    b.given /\ \A i \in DOMAIN b.items : ProductSpellings[b.items[i]] \notin VALID_PRODUCTS

C6_DefaultsToTransactions ==
    (NoKnownEntry(body) /\ sent # <<>>) => sent[1].products = <<"transactions">>

C6_Witness ==
    /\ body = [given |-> TRUE, items |-> <<"balances">>]
    /\ Len(sent) = 1

\* C7: every request sent carries a non-empty product list drawn from the
\* known vocabulary.
C7_RequestsCarryKnownProducts ==
    \A i \in DOMAIN sent :
        /\ sent[i].products # <<>>
        /\ Range(sent[i].products) \subseteq VALID_PRODUCTS

C7_Witness ==
    /\ Len(sent) >= 3
    /\ Last(sent).phase = "last"
    /\ "balances" \in Range(body.items)

\* C8: after PRODUCTS_NOT_SUPPORTED / PRODUCTS_NOT_ENABLED the product set
\* becomes its intersection with {transactions, auth}, or ['transactions']
\* when that is empty, and the loop retries with it.
C8_CollapsesToMinimalSet ==
    [][ /\ (pc = "resumed" /\ reply.status = "err" /\ reply.e \in NotEnabledErrors)
            => /\ LET both == Range(products) \cap {"transactions", "auth"}
                  IN  IF both = {} THEN products' = <<"transactions">>
                      ELSE Range(products') = both
               /\ pc' = "loop"
               /\ ~Requests
        /\ (pc = "loop" /\ Requests) => Last(sent').products = products
      ]_vars

C8_Witness ==
    /\ Len(sent) = 3
    /\ history = {"not_enabled"}
    /\ sent[1].products = <<"identity">>
    /\ sent[2].products = <<"transactions">>
    /\ sent[3].phase = "loop"

\* C9: an INVALID_PRODUCT rejection that empties the product set ends the
\* loop; exactly one further request follows, carrying ['transactions']; its
\* success is returned with products_used = ['transactions'], its failure is
\* thrown whatever its code, and no request follows it.
C9_LastResort ==
    [][ /\ \A q \in NamedLists :
            (pc = "resumed" /\ reply = InvalidProductNaming(q)
                /\ Range(products) \subseteq NamedBy(q))
                => (pc' = "last" /\ ~Requests)
        /\ (pc = "last")
                => /\ sent' = Append(sent, [products |-> <<"transactions">>, phase |-> "last"])
                   /\ pc' = "lastAwait"
        /\ (pc = "lastResumed" /\ reply.status = "ok")
                => result' = Returned(reply.out, <<"transactions">>) /\ pc' = "done"
        /\ (pc = "lastResumed" /\ reply.status = "err")
                => result' = Thrown(reply.e) /\ pc' = "done"
        /\ (LastResortRequests > 0) => ~Requests
      ]_vars

C9_Witness ==
    /\ result.status = "thrown"
    /\ result.e.error_code = "PRODUCTS_NOT_ENABLED"
    /\ Last(sent) = [products |-> <<"transactions">>, phase |-> "last"]
    /\ LastResortRequests = 1

\* ======================================================================
\* Properties of the token store
\* ======================================================================
\* provider requests that leave in this step
NewlyAwaited == { h \in BagToSet(inflight') : CopiesIn(h, inflight') > CopiesIn(h, inflight) }

StoreChangingRoutes == { "/plaid/exchange_public_token", "/plaid/unlink", "/user/delete" }

\* C10: every data fetch (accounts, transactions, liabilities, investments,
\* summary) made for a user carries the access token of that user's most
\* recent successful exchange not removed since by an unlink or delete for
\* that user, and no step taken for another user changes the user's entry.
C10_FetchUsesExchangedToken ==
    [][ /\ \A h \in NewlyAwaited :
            h.route \in DataRoutes
                => (granted[h.user] # "" /\ h.access_token = granted[h.user])
        /\ \A u \in Users :
            tokens'[u] # tokens[u]
                => (response'.user = u /\ response'.route \in StoreChangingRoutes)
      ]_vars

C10_Witness ==
    /\ BagIn(Awaiting("/summary", "u2", "access-b"), inflight)
    /\ tokens["default"] = "access-a"
    /\ response = Respond("/plaid/exchange_public_token", "default", 200, "stored_for_user")

\* C11: a stored credential leaves the store only by being revoked or
\* deleted: when /item/remove resolves for an unlink, the entry the unlink
\* removes is the credential it passed to /item/remove, so a credential
\* exchanged for the same user in the meantime stays stored.
C11_UnlinkRemovesWhatItRevoked ==
    [][ \A h \in Handlers :
            (h.route = "/plaid/unlink" /\ inflight' = Settle(h)
                /\ tokens[h.user] # h.access_token)
                => tokens'[h.user] = tokens[h.user]
      ]_vars

\* C12: no HTTP response carries an access token; the exchange response
\* carries only the item id and the user id.
C12_NoTokenInResponse ==
    /\ payload \cap AccessTokens = {}
    /\ (response.route = "/plaid/exchange_public_token" /\ response.status = 200)
            => payload = {"item-1", response.user}

C12_Witness ==
    /\ response = Respond("/plaid/exchange_public_token", "u2", 200, "stored_for_user")
    /\ tokens["u2"] = "access-b"

\* positions in the Promise.all array whose fetch failed
FailedSources == { i \in DOMAIN Sources : settled[i] = Failed }

\* the report had all four fetches succeeded
AllFulfilled ==
    summaryOf(variant, summaryUser,
              Fulfilled(upstream.accounts), Fulfilled(upstream.liabilities),
              Fulfilled(upstream.holdings), Fulfilled(upstream.transactions))

\* the fetches (by position) a KPI is computed from
DependsOn(k) ==
    CASE k \in {"totalCash", "checking", "savings", "cashOther"} -> {1}
      [] k = "totalLiabilities" -> {2}
      [] k = "totalInvestments" -> {3}
      [] k \in {"income30", "spend30", "netCashFlow", "monthlySpend", "savingsRate"} -> {4}
      [] k = "runwayMonths" -> {1, 4}
      [] k = "netWorth" -> {1, 2, 3}

SummaryDone == spc = "done" /\ tokens[summaryUser] # ""

OutcomeOf(name) ==
    LET i == CHOOSE j \in DOMAIN Sources : Sources[j] = name
    IN  settled[i]

\* C14: the report depends only on the four results or failures, not on the
\* order in which the fetches completed.
C14_OrderIndependent ==
    SummaryDone =>
        report = SummaryReturned(
                    summaryOf(variant, summaryUser, OutcomeOf("accounts"),
                              OutcomeOf("liabilities"), OutcomeOf("holdings"),
                              OutcomeOf("transactions")))

\* the transactions fetch completed first and the accounts fetch last
C14_Witness ==
    /\ SummaryDone
    /\ arrival = <<4, 3, 2, 1>>
    /\ FailedSources = {3}
    /\ report.value.kpis.totalCash # 0

Kpis == report.value.kpis

\* C15: with all four inputs absent the report has totalCash, totalInvestments,
\* totalLiabilities and netWorth 0, monthlySpend 2000, savingsRate 0.20 and
\* runwayMonths 0.
C15_AllAbsent ==
    (SummaryDone /\ FailedSources = DOMAIN Sources) =>
        /\ Kpis.totalCash = 0
        /\ Kpis.totalInvestments = 0
        /\ Kpis.totalLiabilities = 0
        /\ Kpis.netWorth = 0
        /\ Kpis.monthlySpend = Dollars(2000)
        /\ "savingsRate" \in DOMAIN Kpis
        /\ Kpis.savingsRate = Quotient(20, 100)
        /\ Kpis.runwayMonths = 0

\* the cash figure an account counts towards
bucketOf(a) ==
    IF a.type # "depository" THEN "none"
    ELSE IF a.subtype \in {"checking", "savings"} THEN a.subtype
    ELSE "cashOther"

\* what the accounts of one bucket contribute in total
RECURSIVE BucketTotal(_, _)
BucketTotal(accts, bucket) ==
    IF accts = <<>> THEN 0
    ELSE (IF bucketOf(Head(accts)) # bucket THEN 0
          ELSE IF Head(accts).available # Missing THEN Head(accts).available[1]
          ELSE IF Head(accts).current # Missing THEN Head(accts).current[1]
          ELSE 0)
         + BucketTotal(Tail(accts), bucket)

\* C17: checking, savings and cashOther are the sums, to the cent, over the
\* depository accounts of subtype checking, savings and anything else, each
\* account contributing its available balance, else its current balance, else
\* 0; totalCash is their sum, and accounts of other types count nowhere.
C17_CashBuckets ==
    SummaryDone =>
        /\ Kpis.checking = money(BucketTotal(report.value.accounts, "checking"))
        /\ Kpis.savings = money(BucketTotal(report.value.accounts, "savings"))
        /\ "cashOther" \in DOMAIN Kpis
        /\ Kpis.cashOther = money(BucketTotal(report.value.accounts, "cashOther"))
        /\ Kpis.totalCash = Kpis.checking + Kpis.savings + Kpis.cashOther

\* the price of the security matching a holding: close price, else price, else 0
PriceFor(h, securities) ==
    LET matching == { i \in DOMAIN securities : securities[i].security_id = h.security_id }
    IN  IF matching = {} THEN 0
        ELSE LET sec == securities[CHOOSE i \in matching : TRUE]
             IN  IF sec.close_price # Missing THEN sec.close_price[1]
                 ELSE IF sec.price # Missing THEN sec.price[1]
                 ELSE 0

\* what one holding is worth according to the valuation rule
WorthOf(h, securities) ==
    IF h.institution_value # Missing THEN h.institution_value[1]
    ELSE (IF h.quantity # Missing THEN h.quantity[1] ELSE 0) * PriceFor(h, securities)

RECURSIVE TotalWorth(_, _)
TotalWorth(holdings, securities) ==
    IF holdings = <<>> THEN 0
    ELSE WorthOf(Head(holdings), securities) + TotalWorth(Tail(holdings), securities)

\* C18: each holding counts with its institution_value when that is numeric
\* and with quantity times the matching security's close price, else price,
\* else 0, only when it is not.
C18_InstitutionValuePreferred ==
    (SummaryDone /\ 3 \notin FailedSources) =>
        Kpis.totalInvestments =
            money(TotalWorth(upstream.holdings.holdings, upstream.holdings.securities))

\* one holding valued by the institution although its security is priced,
\* next to one valued by quantity and close price
C18_Witness ==
    /\ SummaryDone
    /\ 3 \notin FailedSources
    /\ upstream.holdings.holdings =
          << [security_id |-> "s1", institution_value |-> Num(Dollars(70)),
              quantity |-> Num(3)],
             [security_id |-> "s2", institution_value |-> Missing, quantity |-> Num(3)] >>
    /\ upstream.holdings.securities =
          << [security_id |-> "s1", close_price |-> Num(12346), price |-> Num(Dollars(10))],
             [security_id |-> "s2", close_price |-> Num(12346), price |-> Missing] >>
    /\ Kpis.totalInvestments = Dollars(70) + 37040

\* C19: every KPI report has a savingsRate, and it lies within [0, 1].
C19_SavingsRateInUnitInterval ==
    SummaryDone =>
        /\ "savingsRate" \in DOMAIN Kpis
        /\ ~Below(Kpis.savingsRate, <<0, 1>>)
        /\ ~Below(<<1, 1>>, Kpis.savingsRate)

\* C20: with a transaction set present netCashFlow = income30 - spend30,
\* monthlySpend is spend30 or 2000 when that is zero, and savingsRate is
\* netCashFlow / income30 clamped to [0, 1] or 0 when income30 is zero; the
\* three defaults 2000, 0.20 and 0 appear together only when it is absent.
C20_CashFlowFigures ==
    SummaryDone =>
        /\ "savingsRate" \in DOMAIN Kpis
        /\ 4 \notin FailedSources =>
              /\ Kpis.netCashFlow = Kpis.income30 - Kpis.spend30
              /\ Kpis.monthlySpend =
                    (IF Kpis.spend30 # 0 THEN Kpis.spend30 ELSE Dollars(2000))
              /\ Kpis.income30 = 0 => Kpis.savingsRate = <<0, 1>>
              /\ (Kpis.income30 # 0 /\ Kpis.netCashFlow <= 0) => Kpis.savingsRate = <<0, 1>>
              /\ (Kpis.income30 # 0 /\ Kpis.netCashFlow >= Kpis.income30)
                    => Kpis.savingsRate = <<1, 1>>
              /\ (Kpis.income30 # 0 /\ Kpis.netCashFlow > 0
                    /\ Kpis.netCashFlow < Kpis.income30)
                    => Kpis.savingsRate[1] * Kpis.income30
                          = Kpis.netCashFlow * Kpis.savingsRate[2]
        /\ 4 \in FailedSources =>
              /\ Kpis.monthlySpend = Dollars(2000)
              /\ Kpis.savingsRate = Quotient(20, 100)
              /\ Kpis.netCashFlow = 0
        /\ (Kpis.monthlySpend = Dollars(2000) /\ Kpis.savingsRate = Quotient(20, 100)
                /\ Kpis.netCashFlow = 0) => 4 \in FailedSources

\* a money figure (in mills) that is a whole number of cents
WholeCents(n) == n % 10 = 0

\* a quotient in lowest terms that is a whole number of hundredths
WholeHundredths(r) == 100 % r[2] = 0

\* C21: every numeric field of every KPI report is rounded to 2 decimal
\* places, that is an integer multiple of 0.01.
C21_FieldsRoundedToCents ==
    SummaryDone =>
        \A k \in DOMAIN Kpis :
            IF k = "savingsRate" THEN WholeHundredths(Kpis[k]) ELSE WholeCents(Kpis[k])

\* C22: runwayMonths is a finite number in every KPI report, never Infinity
\* or NaN, and it is 0 whenever monthlySpend is 0.
C22_RunwayFinite ==
    SummaryDone =>
        /\ Kpis.runwayMonths \notin {Infinity, 0 - Infinity}
        /\ Kpis.monthlySpend = 0 => Kpis.runwayMonths = 0

\* nothing was spent in the window and there is cash to divide
C22_Witness ==
    /\ SummaryDone
    /\ 4 \notin FailedSources
    /\ Kpis.spend30 = 0
    /\ Kpis.totalCash = Dollars(100)
    /\ Kpis.runwayMonths = 50

\* the transactions the provider returned for the report
Window == upstream.transactions.transactions

\* the sum of a list in exact arithmetic
RECURSIVE total(_)
total(arr) == IF arr = <<>> THEN 0 ELSE arr[1] + total(Tail(arr))

\* the three sums of the classification came out without rounding
SumsExact ==
    /\ sum(Window) = total(Window)
    /\ sum(SelectSeq(Window, isDebit)) = total(SelectSeq(Window, isDebit))
    /\ sum(Map(negated, SelectSeq(Window, isCredit)))
           = total(Map(negated, SelectSeq(Window, isCredit)))

\* income30 is the rounded sum of the negated negative amounts, spend30 the
\* rounded sum of the positive amounts, and neither is negative
NaiveRoles ==
    /\ Kpis.income30 = money(sum(Map(negated, SelectSeq(Window, isCredit))))
    /\ Kpis.spend30 = money(sum(SelectSeq(Window, isDebit)))
    /\ Kpis.income30 >= 0
    /\ Kpis.spend30 >= 0

\* C23 as stated: the sign-inversion branch is never taken, so for every
\* transaction list income30 is the rounded sum of the negated negative
\* amounts and spend30 the rounded sum of the positive amounts, both >= 0.
C23_NeverInverted == SummaryDone => NaiveRoles

\* C23 amended: whenever the three sums of the amounts are computed without
\* rounding, the sign-inversion branch is not taken: income30 is the rounded
\* sum of the negated negative amounts, spend30 the rounded sum of the
\* positive amounts, and both are >= 0.
C23_NotInvertedWhenExact == (SummaryDone /\ SumsExact) => NaiveRoles

\* credits and debits both present, summed exactly, income below spend
C23_Witness ==
    /\ SummaryDone
    /\ SumsExact
    /\ SelectSeq(Window, isCredit) # <<>>
    /\ 0 < Kpis.income30
    /\ Kpis.income30 < Kpis.spend30

\* C16: given transactions whose raw signed sum is negative and whose naive
\* income total is less than their naive spend total, income30 is the sum of
\* the positive amounts and spend30 the sum of the negated negative amounts.
C16_RolesSwapped ==
    (/\ SummaryDone
     /\ sum(Window) < 0
     /\ money(sum(Map(negated, SelectSeq(Window, isCredit))))
            < money(sum(SelectSeq(Window, isDebit))))
        => /\ Kpis.income30 = money(sum(SelectSeq(Window, isDebit)))
           /\ Kpis.spend30 = money(sum(Map(negated, SelectSeq(Window, isCredit))))

\* a window whose small amounts are absorbed by the large ones: the raw sum
\* comes out negative although income came out below spend
C16_Witness ==
    /\ SummaryDone
    /\ Window = <<0 - (Big + 256), 64, Big + 128, 70>>
    /\ sum(Window) < 0
    /\ Kpis.spend30 < Kpis.income30

\* the products the call starts from
Sanitized == sanitize(prodsArgument(variant, body))

\* positions in sent of two successive requests of the attempt loop
SuccessiveAttempts ==
    { i \in DOMAIN sent : i + 1 \in DOMAIN sent /\ sent[i + 1].phase = "loop" }

\* C24: if every rejection of the call is an INVALID_PRODUCT whose bracketed
\* list names at least one product of the rejected set, each attempt has
\* fewer products than the one before, the call issues at most as many loop
\* requests as it had sanitized products and at most one last-resort
\* request, and it has ended once the last-resort request was answered.
C24_ShrinksAndTerminates ==
    onTrack =>
        /\ \A i \in SuccessiveAttempts : Len(sent[i + 1].products) < Len(sent[i].products)
        /\ LoopRequests <= Len(Sanitized)
        /\ LastResortRequests <= 1
        /\ (LastResortRequests = 1 /\ pc \notin {"lastAwait", "lastResumed"}) => pc = "done"

\* two products, rejected one after the other, then the last resort accepted
C24_Witness ==
    /\ onTrack
    /\ Len(Sanitized) = 2
    /\ LoopRequests = 2
    /\ LastResortRequests = 1
    /\ pc = "done"
    /\ result.status = "returned"

\* the rejection in hand is an INVALID_PRODUCT
InvalidProductInHand ==
    pc = "resumed" /\ reply.status = "err" /\ codeOf(reply.e) = "INVALID_PRODUCT"

\* the products its bracketed list names, as the provider means them
NamedInHand ==
    UNION { NamedBy(q) : q \in { n \in NamedLists :
                                    reply.e.error_message = InvalidProductMessage(n) } }

\* C25: within one call the product set of every attempt is a subset of the
\* sanitized initial set (which the first attempt carries) or exactly
\* {transactions}; the set never gains a
\* product other than 'transactions'; and a product named in the bracketed
\* list of an INVALID_PRODUCT rejection is absent from the loop attempt that
\* follows it.
C25_ProductsOnlyShrink ==
    [][ /\ pc = "entry" => products' = Sanitized
        /\ sent = <<>> => (Requests => sent'[1].products = products)
        /\ \A i \in DOMAIN sent' :
              \/ Range(sent'[i].products) \subseteq Range(sent'[1].products)
              \/ Range(sent'[i].products) = {"transactions"}
        /\ pc # "entry" => Range(products') \subseteq Range(products) \cup {"transactions"}
        /\ InvalidProductInHand => Range(products') \cap NamedInHand = {}
        /\ (Requests /\ Last(sent').phase = "loop") => Last(sent').products = products
      ]_vars

\* a loop attempt for transactions alone, which the caller had not asked for,
\* after a rejection that named one of two requested products
C25_Witness ==
    /\ Len(sent) = 3
    /\ Len(sent[1].products) = 2
    /\ Len(sent[2].products) = 1
    /\ sent[3] = [products |-> <<"transactions">>, phase |-> "loop"]
    /\ "transactions" \notin Range(Sanitized)
    /\ history = {"invalid_list", "not_enabled"}

\* an unlink handler resumes in this step
UnlinkSettles == \E h \in Handlers : h.route = "/plaid/unlink" /\ inflight' = Settle(h)

\* C26: /plaid/unlink deletes the user's stored credential only after the
\* provider has accepted /item/remove for it; when the provider rejects or
\* fails the removal the credential stays in the store unchanged and an
\* error response is returned; for a user without a stored credential no
\* provider request is made.
C26_UnlinkOnlyAfterRevocation ==
    [][ /\ \A u \in Users :
              (response'.route = "/plaid/unlink" /\ tokens[u] # "" /\ tokens'[u] = "")
                  => (UnlinkSettles /\ removal' = "accepted")
        /\ (UnlinkSettles /\ removal' = "rejected")
              => (tokens' = tokens /\ response'.status >= 400)
        /\ \A h \in NewlyAwaited : h.route = "/plaid/unlink" => tokens[h.user] # ""
      ]_vars

\* an exchange handler resumes in this step
ExchangeSettles ==
    \E h \in Handlers : h.route = "/plaid/exchange_public_token" /\ inflight' = Settle(h)

\* C27: a failed token exchange leaves the credential store unchanged: when
\* the provider rejects the exchange, the credential stored before for the
\* user is still the one later fetches carry; a request without public_token
\* is answered 400 without a provider request and without touching the store.
C27_FailedExchangeKeepsStore ==
    [][ /\ (ExchangeSettles /\ response'.status # 200) => tokens' = tokens
        /\ \A h \in NewlyAwaited :
              h.route \in DataRoutes => h.access_token = tokens[h.user]
        /\ (response'.text = "MISSING_PUBLIC_TOKEN" /\ response' # response)
              => (response'.status = 400 /\ tokens' = tokens /\ inflight' = inflight)
      ]_vars

\* a user with a stored credential whose second exchange was rejected
C27_Witness ==
    /\ response = Respond("/plaid/exchange_public_token", "default",
                          ItemError.http_status, ItemError.error_code)
    /\ tokens["default"] = "access-a"
    /\ inflight = EmptyBag

NotLinkedAnswers == {"NO_LINKED_ITEM_FOR_USER", "linked:false"}

\* C28: a data endpoint or /summary called for a user without a stored
\* credential sends no request to the provider: the data endpoints answer
\* 401 NO_LINKED_ITEM_FOR_USER and /summary answers {linked:false}; so it is
\* after an unlink or a /user/delete for the user, until a new exchange.
C28_NoCredentialNoRequest ==
    [][ /\ \A h \in NewlyAwaited :
              h.route \in DataRoutes
                  => (tokens[h.user] # "" /\ h.access_token = tokens[h.user])
        /\ (response' # response /\ response'.text \in NotLinkedAnswers)
              => /\ tokens[response'.user] = ""
                 /\ inflight' = inflight
                 /\ tokens' = tokens
                 /\ response' = IF response'.route = "/summary"
                                 THEN Respond("/summary", response'.user, 200, "linked:false")
                                 ELSE Respond(response'.route, response'.user, 401,
                                              "NO_LINKED_ITEM_FOR_USER")
        /\ \A u \in Users :
              (response'.route \in {"/plaid/unlink", "/user/delete"} /\ response'.user = u
                    /\ response'.text = "ok" /\ response' # response)
                  => tokens'[u] = ""
      ]_vars

\* "default" had a credential (a fetch with it is still awaited), it was
\* removed, and the next data call was answered 401 at once
C28_Witness ==
    /\ response = Respond("/plaid/accounts", "default", 401, "NO_LINKED_ITEM_FOR_USER")
    /\ tokens["default"] = ""
    /\ BagIn(Awaiting("/plaid/transactions", "default", "access-a"), inflight)

\* C30: for the same four fetch results the Postgres build's buildSummary
\* reports the same KPI fields with the same values as the in-memory
\* build's: whichever build ran, its report is the one either computes.
C30_SameKpisInBothBuilds ==
    SummaryDone =>
        /\ Kpis = kpisMem(settled[1], settled[2], settled[3], settled[4])
        /\ Kpis = kpisPg(settled[1], settled[2], settled[3], settled[4])

\* ======================================================================
\* Properties of the one-row-per-exchange build
\* ======================================================================
\* C29: after a successful /plaid/item/remove for user u no credential is
\* stored for u, and every credential that had been stored for u has been
\* revoked at the provider: no row leaves the table without an accepted
\* /item/remove for its token.
C29_RemoveRevokesAll ==
    [][ /\ \A h \in Handlers :
              (h.route = "/plaid/item/remove" /\ inflight' = Settle(h) /\ removal' = "accepted")
                  => rowsOf(rows', h.user) = <<>>
        /\ \A i \in DOMAIN rows :
              (\A j \in DOMAIN rows' : rows'[j] # rows[i]) => rows[i].access_token \in revoked'
      ]_vars

====
